---- MODULE Spec2Model ----
(***************************************************************************)
(* Model of raspberryrequest.APIRequestHandler (src/raspberryrequest/      *)
(* main.py): the retry controller send_api_request / _backoff with its     *)
(* recursive re-invocation, close_session, and the status-code policy      *)
(* operations add_status_code / remove_status_code.                        *)
(*                                                                         *)
(* One handler instance, one thread of control.  A send_api_request call   *)
(* is a stack of Python frames; every step of the top frame is an action.  *)
(***************************************************************************)
EXTENDS Integers, Sequences, FiniteSets, TLC

(* ---------------------------------------------------------------- bounds *)

\* largest max_attempts a handler is constructed with
MaxMaxAttempts == 4

\* number of add_status_code / remove_status_code calls explored per handler
MaxPolicyOps == 1

\* largest max_delay a handler is constructed with
MaxMaxDelay == 2

(* ------------------------------------------------------------- constants *)

Classes == {"VALID", "RETRYABLE", "NONRETRYABLE", "FATAL"}

\* status codes the transport answers with; 500 is in no default list
Codes == {200, 429, 403, 401, 500}

\* codes handed to add_status_code / remove_status_code
PolicyCodes == {500, 401}

\* codes handed to add_status_code between the requests of a handler
NewCodes == {500}

\* status codes and embedded codes of the responses handed to valid_status
ClassifierCodes == {200, 401}

\* response.text: empty, not JSON, a JSON object with or without a "code"
\* key, or JSON that is no object (a list, a string, a number, null)
Bodies == {"empty", "not_json", "object_code", "object_nocode", "non_object"}

\* transport failures make_request can raise: a requests Timeout (ReadTimeout
\* and ConnectTimeout are its subclasses) or a plain ConnectionError
Failures == {"Timeout", "ConnectionError"}

\* except (ReadTimeout, Timeout, HTTPError): a plain ConnectionError is none
\* of the three
Caught == {"Timeout"}

\* StatusCodes(): the four class-level lists of the policy
DefaultStatusCodes ==
    [VALID |-> <<200>>, RETRYABLE |-> <<429>>,
     NONRETRYABLE |-> <<403>>, FATAL |-> <<401>>]

\* SessionData(): every counter zero
ZeroSessionData ==
    [VALID |-> 0, RETRYABLE |-> 0, NONRETRYABLE |-> 0, FATAL |-> 0, PAID |-> 0]

\* max_delay: int = 10
DefaultMaxDelay == 10

\* calculate_backoff: first delay and ceiling of the exponential backoff
BackoffBase == 1
BackoffCap == 10

NoResponse == [status_code |-> 0, text |-> 0]
NoSleep == [done |-> FALSE, delay |-> 0]
NoValue == [data |-> 0]
NoArg == [name |-> "", code |-> 0]

\* outcome of an operation that carries no value
Res(kind) == [kind |-> kind, value |-> NoValue, arg |-> NoArg]

(* ----------------------------------------------------------------- state *)

VARIABLES
    max_attempts,   \* self.max_attempts
    max_delay,      \* self.max_delay
    call_number,    \* self.call_number, the Attempt Counter
    session_data,   \* self.session_data, the Session Counters
    StatusCodes,    \* the lists VALID, RETRYABLE, NONRETRYABLE, FATAL
    PAID,           \* self.status_codes.PAID
    session,        \* self.session: "open" or "closed"
    stack,          \* frames of send_api_request, innermost last
    result,         \* outcome of the last operation, "pending" during a call
    trace,          \* transport outcomes of the attempts of the current call
    entry,          \* call_number and session_data when the call started
    sleep,          \* the time.sleep since the last attempt, if any
    policy_ops,     \* add/remove calls made so far
    config,         \* VALID, RETRYABLE, NONRETRYABLE, FATAL of validate.py
    response,       \* the response handed to valid_status
    verdict         \* what valid_status returned or raised for it

\* the state valid_status works on
classifier == <<config, response, verdict>>

\* the handler's construction parameters
params == <<max_attempts, max_delay>>

vars == <<max_attempts, max_delay, call_number, session_data, StatusCodes,
          PAID, session, stack, result, trace, entry, sleep, policy_ops,
          config, response, verdict>>

(* --------------------------------------------------------------- helpers *)

In(list, c) == \E i \in DOMAIN list : list[i] = c

Count(list, c) == Cardinality({i \in DOMAIN list : list[i] = c})

\* list.remove(c): drop the first occurrence
ListRemove(list, c) ==
    LET i == CHOOSE j \in DOMAIN list :
                 list[j] = c /\ \A k \in 1..(j - 1) : list[k] # c
    IN  SubSeq(list, 1, i - 1) \o SubSeq(list, i + 1, Len(list))

\* response.json()
Json(r) == [data |-> r.text]

\* first matching class, Valid > Retryable > NonRetryable > Fatal
ClassOf(c, codes) ==
    IF In(codes.VALID, c) THEN "VALID"
    ELSE IF In(codes.RETRYABLE, c) THEN "RETRYABLE"
    ELSE IF In(codes.NONRETRYABLE, c) THEN "NONRETRYABLE"
    ELSE IF In(codes.FATAL, c) THEN "FATAL"
    ELSE "NONE"

\* update_session_data(status_code, status_codes, session_data)
update_session_data(c, codes, paid, data) ==
    LET cls == ClassOf(c, codes)
        d1  == IF cls = "NONE" THEN data
               ELSE [data EXCEPT ![cls] = data[cls] + 1]
    IN  IF In(paid, c) THEN [d1 EXCEPT !.PAID = d1.PAID + 1] ELSE d1

\* validate_status(status_code, status_codes): "true", "false", or the
\* exception it raises
validate_status(c, codes) ==
    LET cls == ClassOf(c, codes)
    IN  IF cls = "VALID" THEN "true"
        ELSE IF cls = "NONRETRYABLE" THEN "NonRetryableStatusCodeError"
        ELSE IF cls = "FATAL" THEN "FatalStatusCodeError"
        ELSE "false"

Min(a, b) == IF a <= b THEN a ELSE b

\* calculate_backoff(attempt): exponential, clamped to its own ceiling
calculate_backoff(n) == Min(BackoffBase * 2 ^ n, BackoffCap)

Top == stack[Len(stack)]
Idle == stack = <<>>
Running == stack # <<>>

NewFrame == [pc |-> "while", has_status |-> FALSE, status_code |-> 0,
             response |-> NoResponse, attempt_ok |-> FALSE]

SetTop(f) == [stack EXCEPT ![Len(stack)] = f]

\* the top frame returns v: the caller, waiting inside _backoff, resumes
\* after its _backoff call (which drops v), or the call is over
Return(v) ==
    IF Len(stack) = 1
    THEN /\ stack' = <<>>
         /\ result' = v
    ELSE LET caller == stack[Len(stack) - 1]
             resumed == [caller EXCEPT !.pc =
                            IF caller.pc = "in_backoff_except"
                            THEN "classify" ELSE "while"]
         IN  /\ stack' = Append(SubSeq(stack, 1, Len(stack) - 2), resumed)
             /\ result' = result

\* an exception no frame handles unwinds every frame
Raise(kind) ==
    /\ stack' = <<>>
    /\ result' = Res(kind)

\* a loop test that lets one more attempt through
LoopGuardLate == call_number <= max_attempts + 1

\* while self.call_number <= self.max_attempts
LoopGuard == call_number <= max_attempts

\* a retry bound that stops one attempt early
BackoffGuardEarly == call_number < max_attempts - 1

\* if self.call_number < self.max_attempts
BackoffGuard == call_number < max_attempts

(* ------------------------------------------------------------------ init *)

\* models.StatusCodes as config.py fills it, no response classified yet
InitClassifier ==
    /\ config = [VALID |-> {200}, RETRYABLE |-> {429},
                 NONRETRYABLE |-> {403}, FATAL |-> {401}]
    /\ response = [text |-> "none", status_code |-> 0, code |-> 0]
    /\ verdict = "none"

\* APIRequestHandler(max_attempts=...), the other arguments left out
InitHandler ==
    /\ max_attempts \in 0..MaxMaxAttempts
    /\ call_number = 0
    /\ session_data = ZeroSessionData
    /\ StatusCodes = DefaultStatusCodes
    /\ PAID \in {<<>>, <<200>>}
    /\ session = "open"
    /\ stack = <<>>
    /\ result = Res("new")
    /\ trace = <<>>
    /\ entry = [call_number |-> 0, session_data |-> ZeroSessionData]
    /\ sleep = NoSleep
    /\ policy_ops = 0

Init ==
    /\ InitHandler
    /\ max_delay = DefaultMaxDelay
    /\ InitClassifier

(* ------------------------------------------------------ send_api_request *)

\* the caller invokes send_api_request
Call ==
    /\ Idle
    /\ stack' = <<NewFrame>>
    /\ result' = Res("pending")
    /\ trace' = <<>>
    /\ entry' = [call_number |-> call_number, session_data |-> session_data]
    /\ sleep' = NoSleep
    /\ UNCHANGED <<classifier, params, call_number, session_data, StatusCodes, PAID,
                   session, policy_ops>>

\* the while condition is false: the function falls off its end
WhileExit ==
    /\ Running
    /\ Top.pc = "while"
    /\ ~LoopGuard
    /\ Return(Res("null"))
    /\ UNCHANGED <<classifier, params, call_number, session_data, StatusCodes,
                   PAID, session, trace, entry, sleep, policy_ops>>

\* one attempt answered by an HTTP response with status code c
AttemptResponse(c) ==
    /\ Running
    /\ Top.pc = "while"
    /\ LoopGuard
    /\ call_number' = call_number + 1
    /\ session' = "open"
    /\ stack' = SetTop([pc |-> "classify", has_status |-> TRUE,
                        status_code |-> c,
                        response |-> [status_code |-> c,
                                      text |-> call_number + 1],
                        attempt_ok |-> TRUE])
    /\ trace' = Append(trace, [kind |-> "response", code |-> c,
                                slept |-> sleep.done])
    /\ sleep' = NoSleep
    /\ UNCHANGED <<classifier, params, session_data, StatusCodes, PAID, result,
                   entry, policy_ops>>

\* one attempt that make_request ends with a transport failure
AttemptFailure(f) ==
    /\ Running
    /\ Top.pc = "while"
    /\ LoopGuard
    /\ call_number' = call_number + 1
    /\ trace' = Append(trace, [kind |-> f, code |-> 0, slept |-> sleep.done])
    /\ sleep' = NoSleep
    /\ IF f \in Caught
       THEN /\ stack' = SetTop([Top EXCEPT !.pc = "backoff_except",
                                           !.attempt_ok = FALSE])
            /\ result' = result
       ELSE Raise(f)
    /\ UNCHANGED <<classifier, params, session_data, StatusCodes, PAID,
                   session, entry, policy_ops>>

\* a close that forgets the Attempt Counter
ClosedKeepsCalls ==
    /\ call_number' = call_number
    /\ session_data' = ZeroSessionData
    /\ session' = "closed"

\* close_session's assignments
Closed ==
    /\ call_number' = 0
    /\ session_data' = ZeroSessionData
    /\ session' = "closed"

\* a Fatal handler that re-raises without closing
FatalStopNoClose ==
    /\ UNCHANGED <<call_number, session_data, session>>
    /\ Raise("FatalStatusCodeError")

\* except FatalStatusCodeError: close_session(), raise
FatalStop ==
    /\ Closed
    /\ Raise("FatalStatusCodeError")

\* the second try block: update_session_data, validate_status, the handlers
Classify ==
    /\ Running
    /\ Top.pc = "classify"
    /\ IF ~Top.has_status
       THEN /\ Raise("UnboundLocalError")
            /\ UNCHANGED <<call_number, session_data, session>>
       ELSE LET v == validate_status(Top.status_code, StatusCodes)
                counted == update_session_data(Top.status_code, StatusCodes,
                                               PAID, session_data)
            IN  CASE v = "true" ->
                       /\ Return([kind |-> "value",
                                  value |-> Json(Top.response),
                                  arg |-> NoArg])
                       /\ session_data' = counted
                       /\ UNCHANGED <<call_number, session>>
                  [] v = "NonRetryableStatusCodeError" ->
                       /\ Return(Res("null"))
                       /\ session_data' = counted
                       /\ UNCHANGED <<call_number, session>>
                  [] v = "FatalStatusCodeError" -> FatalStop
                  [] OTHER ->
                       /\ stack' = SetTop([Top EXCEPT !.pc = "backoff"])
                       /\ result' = result
                       /\ session_data' = counted
                       /\ UNCHANGED <<call_number, session>>
    /\ UNCHANGED <<classifier, params, StatusCodes, PAID, trace, entry, sleep,
                   policy_ops>>

\* a _backoff that closes the session before it gives up
BackoffCloses ==
    /\ Running
    /\ Top.pc \in {"backoff", "backoff_except"}
    /\ IF BackoffGuard
       THEN /\ sleep' = [done |-> TRUE,
                         delay |-> calculate_backoff(call_number)]
            /\ stack' = Append(SetTop([Top EXCEPT !.pc =
                                   IF Top.pc = "backoff_except"
                                   THEN "in_backoff_except"
                                   ELSE "in_backoff"]),
                               NewFrame)
            /\ result' = result
            /\ UNCHANGED <<call_number, session_data, session>>
       ELSE /\ sleep' = sleep
            /\ Closed
            /\ Raise("MaxRetryError")
    /\ UNCHANGED <<classifier, params, StatusCodes, PAID, trace, entry,
                   policy_ops>>

\* _backoff: sleep and re-invoke send_api_request, or raise MaxRetryError
Backoff ==
    /\ Running
    /\ Top.pc \in {"backoff", "backoff_except"}
    /\ IF BackoffGuard
       THEN /\ sleep' = [done |-> TRUE,
                         delay |-> calculate_backoff(call_number)]
            /\ stack' = Append(SetTop([Top EXCEPT !.pc =
                                   IF Top.pc = "backoff_except"
                                   THEN "in_backoff_except"
                                   ELSE "in_backoff"]),
                               NewFrame)
            /\ result' = result
       ELSE /\ sleep' = sleep
            /\ Raise("MaxRetryError")
    /\ UNCHANGED <<classifier, params, call_number, session_data, StatusCodes,
                   PAID, session, trace, entry, policy_ops>>

(* --------------------------------------------------------- close_session *)

close_session ==
    /\ Idle
    /\ Closed
    /\ result' = Res("closed")
    /\ trace' = <<>>
    /\ UNCHANGED <<classifier, params, StatusCodes, PAID, stack, entry, sleep,
                   policy_ops>>

(* ---------------------------------------------------------------- policy *)

\* an add that appends without looking
AddStatusCodeAlways(name, c) ==
    /\ Idle
    /\ StatusCodes' = [StatusCodes EXCEPT ![name] = Append(@, c)]
    /\ result' = [kind |-> "added", value |-> NoValue,
                  arg |-> [name |-> name, code |-> c]]
    /\ trace' = <<>>
    /\ UNCHANGED <<classifier, params, call_number, session_data, PAID,
                   session, stack, entry, sleep>>

\* add_status_code(status_list_name, status_code)
AddStatusCode(name, c) ==
    /\ Idle
    /\ StatusCodes' = IF In(StatusCodes[name], c) THEN StatusCodes
                      ELSE [StatusCodes EXCEPT ![name] = Append(@, c)]
    /\ result' = [kind |-> "added", value |-> NoValue,
                  arg |-> [name |-> name, code |-> c]]
    /\ trace' = <<>>
    /\ UNCHANGED <<classifier, params, call_number, session_data, PAID,
                   session, stack, entry, sleep>>

\* remove_status_code(status_list_name, status_code): list.remove raises
\* ValueError when the code is not in the list
RemoveStatusCode(name, c) ==
    /\ Idle
    /\ IF In(StatusCodes[name], c)
       THEN /\ StatusCodes' = [StatusCodes EXCEPT ![name] = ListRemove(@, c)]
            /\ result' = [kind |-> "removed", value |-> NoValue,
                          arg |-> [name |-> name, code |-> c]]
       ELSE /\ StatusCodes' = StatusCodes
            /\ result' = [kind |-> "ValueError", value |-> NoValue,
                          arg |-> [name |-> name, code |-> c]]
    /\ trace' = <<>>
    /\ UNCHANGED <<classifier, params, call_number, session_data, PAID,
                   session, stack, entry, sleep>>

\* policy calls between the requests of a handler, MaxPolicyOps of them
add_status_code(name, c) ==
    /\ policy_ops < MaxPolicyOps
    /\ policy_ops' = policy_ops + 1
    /\ AddStatusCode(name, c)

remove_status_code(name, c) ==
    /\ policy_ops < MaxPolicyOps
    /\ policy_ops' = policy_ops + 1
    /\ RemoveStatusCode(name, c)

(* ------------------------------------------------------------------ spec *)

Next ==
    \/ Call
    \/ WhileExit
    \/ \E c \in Codes : AttemptResponse(c)
    \/ \E f \in Failures : AttemptFailure(f)
    \/ Classify
    \/ Backoff
    \/ close_session
    \/ \E name \in Classes, c \in NewCodes : add_status_code(name, c)
    \/ \E name \in Classes, c \in PolicyCodes : remove_status_code(name, c)

Spec == Init /\ [][Next]_vars

\* the policy operations alone, in any number and order
PolicyAdd(name, c) == AddStatusCode(name, c) /\ UNCHANGED policy_ops
PolicyRemove(name, c) == RemoveStatusCode(name, c) /\ UNCHANGED policy_ops

PolicyNext ==
    \/ \E name \in Classes, c \in PolicyCodes : PolicyAdd(name, c)
    \/ \E name \in Classes, c \in PolicyCodes : PolicyRemove(name, c)

SpecPolicy == Init /\ [][PolicyNext]_vars

\* valid_status of validate.py on any response, under any contents of the
\* four lists it imports
NoResponseYet == [text |-> "none", status_code |-> 0, code |-> 0]

InitValidate ==
    /\ InitHandler
    /\ max_delay = DefaultMaxDelay
    /\ config \in [Classes -> SUBSET ClassifierCodes]
    /\ response = NoResponseYet
    /\ verdict = "none"

\* a response arrives
Receive(r) ==
    /\ response' = r
    /\ verdict' = "pending"
    /\ UNCHANGED <<params, call_number, session_data, StatusCodes, PAID,
                   session, stack, result, trace, entry, sleep, policy_ops,
                   config>>

\* a classifier that looks for Fatal before NonRetryable
valid_statusFatalFirst(r, cfg) ==
    IF r.text = "empty" THEN "false"
    ELSE IF r.text = "not_json" THEN "JSONDecodeError"
    ELSE IF r.text = "non_object" THEN "TypeError"
    ELSE LET code == IF r.text = "object_code" THEN r.code
                     ELSE r.status_code
         IN  IF r.status_code \in cfg.VALID \/ code \in cfg.VALID
             THEN "true"
             ELSE IF r.status_code \in cfg.RETRYABLE
                     \/ code \in cfg.RETRYABLE
             THEN "false"
             ELSE IF r.status_code \in cfg.FATAL \/ code \in cfg.FATAL
             THEN "FatalStatusCodeError"
             ELSE IF r.status_code \in cfg.NONRETRYABLE
                     \/ code \in cfg.NONRETRYABLE
             THEN "NonRetryableStatusCodeError"
             ELSE "false"

\* a classifier without the empty-body test: response.json() of an empty
\* body raises
valid_statusNoEmptyTest(r, cfg) ==
    IF r.text \in {"empty", "not_json"} THEN "JSONDecodeError"
    ELSE IF r.text = "non_object" THEN "TypeError"
    ELSE LET code == IF r.text = "object_code" THEN r.code
                     ELSE r.status_code
         IN  IF r.status_code \in cfg.VALID \/ code \in cfg.VALID
             THEN "true"
             ELSE IF r.status_code \in cfg.RETRYABLE
                     \/ code \in cfg.RETRYABLE
             THEN "false"
             ELSE IF r.status_code \in cfg.NONRETRYABLE
                     \/ code \in cfg.NONRETRYABLE
             THEN "NonRetryableStatusCodeError"
             ELSE IF r.status_code \in cfg.FATAL \/ code \in cfg.FATAL
             THEN "FatalStatusCodeError"
             ELSE "false"

\* valid_status(response): "true", "false", or the exception it raises.
\* response_dict['code'] raises KeyError on an object without the key
\* (caught: code = status_code) and TypeError on JSON that is no object
\* (not caught)
valid_status(r, cfg) ==
    IF r.text = "empty" THEN "false"
    ELSE IF r.text = "not_json" THEN "JSONDecodeError"
    ELSE IF r.text = "non_object" THEN "TypeError"
    ELSE LET code == IF r.text = "object_code" THEN r.code
                     ELSE r.status_code
         IN  IF r.status_code \in cfg.VALID \/ code \in cfg.VALID
             THEN "true"
             ELSE IF r.status_code \in cfg.RETRYABLE
                     \/ code \in cfg.RETRYABLE
             THEN "false"
             ELSE IF r.status_code \in cfg.NONRETRYABLE
                     \/ code \in cfg.NONRETRYABLE
             THEN "NonRetryableStatusCodeError"
             ELSE IF r.status_code \in cfg.FATAL \/ code \in cfg.FATAL
             THEN "FatalStatusCodeError"
             ELSE "false"

\* valid_status is applied to the response
Validate ==
    /\ verdict = "pending"
    /\ verdict' = valid_status(response, config)
    /\ UNCHANGED <<params, call_number, session_data, StatusCodes, PAID,
                   session, stack, result, trace, entry, sleep, policy_ops,
                   config, response>>

NextValidate ==
    \/ \E t \in Bodies, sc \in ClassifierCodes, c \in ClassifierCodes :
           Receive([text |-> t, status_code |-> sc,
                    code |-> IF t = "object_code" THEN c ELSE 0])
    \/ Validate

SpecValidate == InitValidate /\ [][NextValidate]_vars

\* requests and closes on a handler constructed with any max_delay; a call
\* under way always takes its next step: the handler runs in its caller's
\* thread, every make_request answers or fails, every sleep ends
InitRequests ==
    /\ InitHandler
    /\ max_delay \in 0..MaxMaxDelay
    /\ InitClassifier

CallStep ==
    \/ WhileExit
    \/ \E c \in Codes : AttemptResponse(c)
    \/ \E f \in Failures : AttemptFailure(f)
    \/ Classify
    \/ Backoff

NextRequests ==
    \/ Call
    \/ CallStep
    \/ close_session

SpecRequests == InitRequests /\ [][NextRequests]_vars /\ WF_vars(CallStep)

(* ------------------------------------------------- vocabulary of claims *)

\* attempt i of the current call was answered by a response of class cls
IsClass(i, cls) ==
    /\ i \in DOMAIN trace
    /\ trace[i].kind = "response"
    /\ ClassOf(trace[i].code, StatusCodes) = cls

\* attempt i of the current call ended in a transport failure
IsFailure(i) == i \in DOMAIN trace /\ trace[i].kind \in Failures

CallOutcomes == {"value", "null", "MaxRetryError", "FatalStatusCodeError",
                 "UnboundLocalError", "ConnectionError"}

\* a send_api_request call has just ended
Done == Idle /\ result.kind \in CallOutcomes

\* the call started on a handler whose Attempt Counter was 0
Fresh == entry.call_number = 0

\* the first k attempts were Retryable and attempt k+1 was Valid
RetriesThenValid(k) ==
    /\ \A i \in 1..k : IsClass(i, "RETRYABLE")
    /\ IsClass(k + 1, "VALID")

\* the decoded body of the response to attempt n of a call that started with
\* Attempt Counter c0
BodyOf(c0, n) == [data |-> c0 + n]

(* ---------------------------------------------------------------- claims *)

\* C1: on a fresh handler, k < max_attempts Retryable responses followed by a
\* Valid one make send_request return the decoded body of that Valid response.
C1_ReturnsValidBody ==
    \A k \in 0..(max_attempts - 1) :
        (Done /\ Fresh /\ RetriesThenValid(k))
            => /\ result.kind = "value"
               /\ result.value = BodyOf(0, k + 1)

\* C2: success is terminal: after k Retryable responses and a Valid one the
\* call has made exactly k+1 attempts, counted Valid once and Retryable k times.
C2_SuccessIsTerminal ==
    \A k \in 0..MaxMaxAttempts :
        RetriesThenValid(k)
            => /\ Len(trace) = k + 1
               /\ Done => /\ session_data.VALID = entry.session_data.VALID + 1
                          /\ session_data.RETRYABLE =
                                 entry.session_data.RETRYABLE + k

\* C3: a NonRetryable response ends the logical request wherever it comes:
\* no attempt follows it, the call returns null, and the NonRetryable counter
\* has grown by exactly 1 while Valid and Retryable keep the values they had
\* before that response.
C3_NonRetryableIsTerminal ==
    \A i \in 1..(MaxMaxAttempts + 1) :
        IsClass(i, "NONRETRYABLE")
            => /\ Len(trace) = i
               /\ Done => /\ result.kind = "null"
                          /\ session_data.NONRETRYABLE =
                                 entry.session_data.NONRETRYABLE + 1

\* C4: a Fatal response at any attempt of a call makes the call fail with
\* FatalStatusCodeError, and right after the call the Attempt Counter is 0,
\* every Session Counter is 0 and the transport session is closed.
C4_FatalClosesSession ==
    \A i \in 1..(MaxMaxAttempts + 1) :
        IsClass(i, "FATAL")
            => /\ Len(trace) = i
               /\ Running => Top.pc = "classify"
               /\ Idle => /\ result.kind = "FatalStatusCodeError"
                          /\ call_number = 0
                          /\ session_data = ZeroSessionData
                          /\ session = "closed"

\* a Fatal response received on a retry, two frames deep, has ended the call
C4_Witness ==
    /\ Done
    /\ Len(trace) >= 2
    /\ IsClass(Len(trace), "FATAL")
    /\ result.kind = "FatalStatusCodeError"
    /\ IsClass(1, "RETRYABLE")

\* C5: on a fresh handler a call whose every attempt is answered Retryable
\* fails with MaxRetryError, the Attempt Counter then being max_attempts or
\* max_attempts + 1.
C5_AllRetryableFails ==
    (Done /\ Fresh /\ \A i \in DOMAIN trace : IsClass(i, "RETRYABLE"))
        => /\ result.kind = "MaxRetryError"
           /\ call_number \in {max_attempts, max_attempts + 1}

\* three Retryable responses in a row have exhausted a budget of three
C5_Witness ==
    /\ Done
    /\ Fresh
    /\ max_attempts = 3
    /\ Len(trace) = 3
    /\ \A i \in DOMAIN trace : IsClass(i, "RETRYABLE")
    /\ result.kind = "MaxRetryError"

\* C6: a call entered with the Attempt Counter at or above max_attempts fails
\* with MaxRetryError without any attempt, and no attempt is ever numbered
\* above max_attempts.
C6_BudgetCheckedFirst ==
    /\ call_number <= max_attempts
    /\ (Done /\ entry.call_number >= max_attempts)
           => /\ result.kind = "MaxRetryError"
              /\ trace = <<>>

\* C7: a call ends only with a value, null, MaxRetryError or
\* FatalStatusCodeError; a transport failure on the first attempt of a fresh
\* handler with max_attempts >= 2 followed by a Valid response returns that
\* response's decoded body.
C7_TransportFailuresAbsorbed ==
    /\ Done => result.kind \in {"value", "null", "MaxRetryError",
                                "FatalStatusCodeError"}
    /\ (Done /\ Fresh /\ max_attempts >= 2 /\ IsFailure(1)
             /\ IsClass(2, "VALID"))
           => /\ result.kind = "value"
              /\ result.value = BodyOf(0, 2)

\* C8: classification and the session-counter update never run for an attempt
\* that ended in a transport failure.
C8_FailedAttemptNotClassified ==
    (Running /\ Top.pc = "classify") => Top.attempt_ok

\* C9: close_session leaves the Attempt Counter and every Session Counter at
\* 0 and the policy as it was, and a call made on the reset handler makes at
\* least max_attempts attempts before it can fail with MaxRetryError.
C9_CloseResets ==
    [][/\ close_session => /\ call_number' = 0
                            /\ session_data' = ZeroSessionData
                            /\ session' = "closed"
                            /\ StatusCodes' = StatusCodes
                            /\ PAID' = PAID
       /\ (Done' /\ Fresh' /\ result'.kind = "MaxRetryError")
              => Len(trace') >= max_attempts']_vars

\* a handler closed after attempts were counted
C9_Witness ==
    /\ result.kind = "closed"
    /\ entry.call_number > 0
    /\ call_number = 0
    /\ policy_ops > 0

\* C10: add_status_code leaves the code exactly once in the list however
\* often it is called, remove_status_code of a present code leaves it absent,
\* and remove_status_code of an absent code fails and changes no list.
C10_AddRemove ==
    [][\A name \in Classes, c \in PolicyCodes :
        /\ PolicyAdd(name, c) => Count(StatusCodes'[name], c) = 1
        /\ (PolicyRemove(name, c) /\ In(StatusCodes[name], c))
               => /\ ~In(StatusCodes'[name], c)
                  /\ result'.kind = "removed"
        /\ (PolicyRemove(name, c) /\ ~In(StatusCodes[name], c))
               => /\ result'.kind = "ValueError"
                  /\ StatusCodes' = StatusCodes]_vars

\* 500, in no default list, was added to FATAL and has been removed again
C10_Witness ==
    /\ result.kind = "removed"
    /\ result.arg = [name |-> "FATAL", code |-> 500]
    /\ ~In(StatusCodes.FATAL, 500)

\* responses of class cls received by the attempts of the current call
Responses(cls) == Cardinality({i \in DOMAIN trace : IsClass(i, cls)})

\* responses of the current call whose code is in the Paid list
PaidResponses ==
    Cardinality({i \in DOMAIN trace :
                    trace[i].kind = "response" /\ In(PAID, trace[i].code)})

\* C11: each response is counted once, in the counter of its class (and in
\* Paid when its code is in the Paid list) and in no other; a response whose
\* code is in no list changes no counter.  So when a call ends without a
\* reset, each counter has grown by the number of responses of its class
\* that the call's attempts received.
C11_CountersMatchResponses ==
    (Done /\ result.kind # "FatalStatusCodeError")
        => /\ \A cls \in Classes :
                 session_data[cls] = entry.session_data[cls] + Responses(cls)
           /\ session_data.PAID = entry.session_data.PAID + PaidResponses

\* C12: the step that ends a call with MaxRetryError resets nothing: the
\* Attempt Counter, every Session Counter, the transport session and the
\* policy keep the values they had after the last attempt was classified,
\* and the Attempt Counter still counts every attempt of the call.
C12_MaxRetryLeavesHandler ==
    [][(result.kind = "pending" /\ result'.kind = "MaxRetryError")
          => /\ call_number' = call_number
             /\ session_data' = session_data
             /\ session' = session
             /\ StatusCodes' = StatusCodes
             /\ PAID' = PAID
             /\ call_number' = entry.call_number + Len(trace)
             /\ call_number' > 0]_vars

\* a call has failed with MaxRetryError on an open handler that has counted
\* Retryable responses
C12_Witness ==
    /\ Done
    /\ result.kind = "MaxRetryError"
    /\ session = "open"
    /\ session_data.RETRYABLE > 0
    /\ call_number = max_attempts
    /\ call_number > 1

\* C13: every delay the retry controller sleeps for is non-negative and at
\* most the max_delay the handler was constructed with.
C13_DelayWithinMaxDelay ==
    sleep.done => (0 <= sleep.delay /\ sleep.delay <= max_delay)

\* the outcomes send_api_request documents
Documented == {"value", "null", "MaxRetryError", "FatalStatusCodeError"}

\* C20: every call ends in a value, null, MaxRetryError or
\* FatalStatusCodeError, after at most max_attempts + 1 attempts and with at
\* most max_attempts nested re-invocations of send_api_request.
C20_EndsInDocumentedOutcome ==
    /\ Running => /\ Len(stack) - 1 <= max_attempts
                  /\ Len(trace) <= max_attempts + 1
    /\ Done => result.kind \in Documented

\* what does hold of C20: a call under way ends, in some outcome, within
\* those bounds
CallsTerminate ==
    /\ [](Running => /\ Len(stack) - 1 <= max_attempts
                     /\ Len(trace) <= max_attempts + 1)
    /\ Running ~> Done

\* valid_status has answered for the response
Validated == verdict \notin {"none", "pending"}

\* the response carries one code: no embedded code, or the status code again
OneCode ==
    \/ response.text = "object_nocode"
    \/ response.text = "object_code" /\ response.code = response.status_code

\* what the first matching list, Valid > Retryable > NonRetryable > Fatal,
\* gives for code c
ByCode(c) ==
    IF c \in config.VALID THEN "true"
    ELSE IF c \in config.RETRYABLE THEN "false"
    ELSE IF c \in config.NONRETRYABLE THEN "NonRetryableStatusCodeError"
    ELSE IF c \in config.FATAL THEN "FatalStatusCodeError"
    ELSE "false"

\* C14: for a code in several lists the first one in the order Valid,
\* Retryable, NonRetryable, Fatal decides: in Valid it is a success; in
\* Retryable and not Valid it is retried without error; in NonRetryable and
\* Fatal but neither Valid nor Retryable it raises
\* NonRetryableStatusCodeError; FatalStatusCodeError is raised only for a
\* code in Fatal and in no other list.
C14_FirstMatchWins ==
    (Validated /\ OneCode) =>
        LET c == response.status_code
        IN  /\ c \in config.VALID => verdict = "true"
            /\ (c \in config.RETRYABLE /\ c \notin config.VALID)
                   => verdict = "false"
            /\ (c \in config.NONRETRYABLE /\ c \in config.FATAL
                    /\ c \notin config.VALID /\ c \notin config.RETRYABLE)
                   => verdict = "NonRetryableStatusCodeError"
            /\ verdict = "FatalStatusCodeError"
                   => /\ c \in config.FATAL
                      /\ c \notin config.VALID
                      /\ c \notin config.RETRYABLE
                      /\ c \notin config.NONRETRYABLE

\* a code both NonRetryable and Fatal has raised NonRetryableStatusCodeError
C14_Witness ==
    /\ Validated
    /\ response.text = "object_nocode"
    /\ response.status_code \in config.NONRETRYABLE
    /\ response.status_code \in config.FATAL
    /\ verdict = "NonRetryableStatusCodeError"

\* C15: with a JSON object that has a code key the embedded code alone
\* decides the outcome; with any other non-empty JSON body the status code
\* decides, and nothing but the two classification errors is raised.
C15_EmbeddedCodeDecides ==
    Validated =>
        /\ response.text = "object_code" => verdict = ByCode(response.code)
        /\ response.text \in {"object_nocode", "non_object"}
               => verdict = ByCode(response.status_code)

\* C16: a response with an empty body is not valid and raises nothing,
\* whatever its status code.
C16_EmptyBodyNotValid ==
    (Validated /\ response.text = "empty") => verdict = "false"

\* an empty body whose status code is Fatal and not Valid was answered false
C16_Witness ==
    /\ Validated
    /\ response.text = "empty"
    /\ response.status_code \in config.FATAL
    /\ response.status_code \notin config.VALID
    /\ verdict = "false"

\* C17: within one call every attempt after the first comes directly after a
\* backoff sleep: no two consecutive attempts without a sleep between them.
C17_SleepBetweenAttempts ==
    \A i \in 2..Len(trace) : trace[i].slept

\* get_session_data(): dict(SessionData.__dict__), the attributes of the
\* class SessionData, whatever the counters of self.session_data are
get_session_data == ZeroSessionData

\* get_status_codes() of a second handler: its StatusCodes() instance holds
\* the lists of the class StatusCodes, the ones add_status_code appends to
OtherHandlerStatusCodes == StatusCodes

\* C18: handlers are isolated: get_session_data gives the handler's own
\* counters, and the policy seen through a second handler, on which no
\* operation was performed, is still the one it was constructed with.
C18_HandlersIsolated ==
    /\ get_session_data = session_data
    /\ OtherHandlerStatusCodes = DefaultStatusCodes

\* C19: the attempt counter is the number of attempts made since
\* construction or the last close: zero at construction, one more with each
\* attempt, set to zero by a close and changed by nothing else; it never
\* exceeds max_attempts + 1.
C19_CounterCountsAttempts ==
    /\ call_number = 0
    /\ [][/\ call_number' <= max_attempts' + 1
          /\ Len(trace') = Len(trace) + 1 => call_number' = call_number + 1
          /\ call_number' # call_number
                 => \/ /\ Len(trace') = Len(trace) + 1
                       /\ call_number' = call_number + 1
                    \/ /\ call_number' = 0
                       /\ session' = "closed"]_vars

\* the counter stands at max_attempts + 1 after a run of attempts
C19_Witness ==
    /\ call_number = max_attempts + 1
    /\ max_attempts >= 2
    /\ Len(trace) >= 2

====
